---- MODULE Spec2Model ----
(***************************************************************************)
(* Model of martinus::random (src/src/main.cpp): the splitmix64 and        *)
(* xoshiro256starstar engines and the Extras mixin (real01, real_between,  *)
(* bounded).                                                               *)
(*                                                                         *)
(* A machine word is a sequence of bits, least significant first: x[i] is  *)
(* the bit of weight 2^(i-1).  uint64_t is a word of length 64, unsigned   *)
(* __int128 one of length 128.  Sums and products are computed on base-256 *)
(* limbs and cut to the width of the C++ type, which is the wrap-around of *)
(* unsigned arithmetic.                                                    *)
(***************************************************************************)
EXTENDS Integers, Sequences, FiniteSets, TLC

(***************************************************************************)
(* Bit-level words                                                         *)
(***************************************************************************)

\* width of uint64_t, the engines' result_type
W == 64

\* 2^k for the small exponents the limb arithmetic needs
Pow2(k) == 2^k

\* the sequence with the elements of f, a function on 1..n: the word as a
\* tuple of evaluated bits (a function expression is evaluated again at
\* every application, a tuple is not)
Bits(f) == f \o << >>

\* bit i (1-based) of x, zero beyond its width: zero extension
BitAt(x, i) == IF i >= 1 /\ i <= Len(x) THEN x[i] ELSE 0

\* the w-bit word of a small natural number n (an integer literal of the code)
FromNat(n, w) ==
    Bits([i \in 1..w |-> IF i > 31 THEN 0 ELSE (n \div Pow2(i - 1)) % 2])

\* the 64-bit word of a UINT64_C(0x...) literal, given as its 16 hex digits
Hex64(d) ==
    Bits([i \in 1..W |-> (d[16 - ((i - 1) \div 4)] \div Pow2((i - 1) % 4)) % 2])

\* static_cast to a type of w bits: truncation or zero extension
Cast(x, w) == Bits([i \in 1..w |-> BitAt(x, i)])

\* x ^ y
Xor(x, y) == Bits([i \in 1..Len(x) |-> (x[i] + y[i]) % 2])

\* x | y
BitOr(x, y) == Bits([i \in 1..Len(x) |-> IF x[i] + y[i] > 0 THEN 1 ELSE 0])

\* x << k, bits shifted out at the top are lost
Shl(x, k) == Bits([i \in 1..Len(x) |-> IF i > k THEN x[i - k] ELSE 0])

\* x >> k for an unsigned x
Shr(x, k) == Bits([i \in 1..Len(x) |-> IF i + k <= Len(x) THEN x[i + k] ELSE 0])

\* x is the zero word
IsZero(x) == \A i \in 1..Len(x) : x[i] = 0

\* x < y as unsigned numbers (the shorter word is zero extended)
Less(x, y) ==
    LET n == IF Len(x) > Len(y) THEN Len(x) ELSE Len(y)
    IN  \E i \in 1..n :
            /\ BitAt(x, i) < BitAt(y, i)
            /\ \A j \in (i + 1)..n : BitAt(x, j) = BitAt(y, j)

\* number of significant bits of x
BitLength(x) ==
    IF IsZero(x) THEN 0 ELSE CHOOSE i \in 1..Len(x) :
        x[i] = 1 /\ \A j \in (i + 1)..Len(x) : x[j] = 0

(***************************************************************************)
(* Limb arithmetic, base 256                                               *)
(***************************************************************************)

\* number of base-256 limbs that hold w bits
NumLimbs(w) == (w + 7) \div 8

\* limb j (1-based) of x: bits 8j-7..8j, zero extended beyond the width
Limb(x, j) ==
    LET b == 8 * j
    IN  IF b <= Len(x)
        THEN x[b - 7] + 2 * x[b - 6] + 4 * x[b - 5] + 8 * x[b - 4]
             + 16 * x[b - 3] + 32 * x[b - 2] + 64 * x[b - 1] + 128 * x[b]
        ELSE BitAt(x, b - 7) + 2 * BitAt(x, b - 6) + 4 * BitAt(x, b - 5)
             + 8 * BitAt(x, b - 4) + 16 * BitAt(x, b - 3) + 32 * BitAt(x, b - 2)
             + 64 * BitAt(x, b - 1) + 128 * BitAt(x, b)

\* the first n limbs of x
Limbs(x, n) == Bits([j \in 1..n |-> Limb(x, j)])

\* carry propagation over column sums, from column k on; the carry out of
\* the last column is dropped
RECURSIVE Propagate(_, _, _)
Propagate(cols, k, carry) ==
    IF k > Len(cols) THEN << >>
    ELSE LET t == cols[k] + carry
         IN  << t % 256 >> \o Propagate(cols, k + 1, t \div 256)

\* the w-bit word of a limb sequence
FromLimbs(l, w) ==
    Bits([i \in 1..w |->
            LET j == ((i - 1) \div 8) + 1
            IN  IF j <= Len(l) THEN (l[j] \div Pow2((i - 1) % 8)) % 2 ELSE 0])

\* (x + y) mod 2^w
Add(x, y, w) ==
    LET n  == NumLimbs(w)
        lx == Limbs(x, n)
        ly == Limbs(y, n)
    IN  FromLimbs(Propagate(Bits([j \in 1..n |-> lx[j] + ly[j]]), 1, 0), w)

\* sum of lx[i] * ly[k + 1 - i] for i = 1..k: column k of the schoolbook product
RECURSIVE Column(_, _, _, _)
Column(lx, ly, k, i) ==
    IF i > k THEN 0 ELSE lx[i] * ly[k + 1 - i] + Column(lx, ly, k, i + 1)

\* (x * y) mod 2^w
Mul(x, y, w) ==
    LET n  == NumLimbs(w)
        lx == Limbs(x, n)
        ly == Limbs(y, n)
    IN  FromLimbs(Propagate(Bits([k \in 1..n |-> Column(lx, ly, k, 1)]), 1, 0), w)

\* (x - y) mod 2^w: two's complement
Sub(x, y, w) ==
    Add(Add(Cast(x, w), Bits([i \in 1..w |-> 1 - BitAt(y, i)]), w), FromNat(1, w), w)

(***************************************************************************)
(* Engines                                                                 *)
(***************************************************************************)

\* UINT64_C(0x9E3779B97F4A7C15), the increment of splitmix64
Gamma == Hex64(<< 9, 14, 3, 7, 7, 9, 11, 9, 7, 15, 4, 10, 7, 12, 1, 5 >>)

\* UINT64_C(0xBF58476D1CE4E5B9)
MixMul1 == Hex64(<< 11, 15, 5, 8, 4, 7, 6, 13, 1, 12, 14, 4, 14, 5, 11, 9 >>)

\* UINT64_C(0x94D049BB133111EB)
MixMul2 == Hex64(<< 9, 4, 13, 0, 4, 9, 11, 11, 1, 3, 3, 1, 1, 1, 14, 11 >>)

\* detail::rotl(x, k) for T of Len(x) bits: (x << k) | (x >> (8 * sizeof(T) - k))
rotl(x, k) == BitOr(Shl(x, k), Shr(x, Len(x) - k))

\* uint64_t z = (m_state += Gamma)
splitmix64_advance(m_state) == Add(m_state, Gamma, W)

\* splitmix64::operator()() mixing the accumulator before it is advanced, as
\* if z were taken from m_state ahead of the +=
splitmix64_call_postinc(m_state) ==
    LET z0 == m_state
        z1 == Mul(Xor(z0, Shr(z0, 30)), MixMul1, W)
        z2 == Mul(Xor(z1, Shr(z1, 27)), MixMul2, W)
    IN  [m_state |-> << splitmix64_advance(m_state) >>,
         result |-> Xor(z2, Shr(z2, 31))]

\* splitmix64::operator()(): the new m_state and the returned word
splitmix64_call(m_state) ==
    LET z0 == splitmix64_advance(m_state)
        z1 == Mul(Xor(z0, Shr(z0, 30)), MixMul1, W)
        z2 == Mul(Xor(z1, Shr(z1, 27)), MixMul2, W)
    IN  [m_state |-> << z0 >>, result |-> Xor(z2, Shr(z2, 31))]

\* std::generate over n elements with generator state g (a splitmix64 taken
\* by value): the elements are assigned first to last, one call each
RECURSIVE generate(_, _)
generate(n, g) ==
    IF n = 0 THEN << >>
    ELSE LET c == splitmix64_call(g)
         IN  << c.result >> \o generate(n - 1, c.m_state[1])

\* the constructor filling m_state with one generated word, as std::fill
\* with splitmix64{seed}() would
xoshiro256starstar_seed_fill(seed) ==
    LET c == splitmix64_call(seed).result
    IN  << c, c, c, c >>

\* xoshiro256starstar(uint64_t seed): m_state filled from splitmix64{seed}
xoshiro256starstar_seed(seed) == generate(4, seed)

\* the value xoshiro256starstar::operator()() returns: rotl(m_state[1] * 5, 7) * 9
\* (the C++ index 1 is the second element, s[2] here)
xoshiro256starstar_result(s) ==
    Mul(rotl(Mul(s[2], FromNat(5, W), W), 7), FromNat(9, W), W)

\* operator()() with m_state[3] ^= m_state[1] moved after m_state[1] ^= m_state[2]
xoshiro256starstar_advance_swapped(s) ==
    LET t  == Shl(s[2], 17)
        a  == [s  EXCEPT ![3] = Xor(s[3], s[1])]
        b  == [a  EXCEPT ![2] = Xor(a[2], a[3])]
        c  == [b  EXCEPT ![4] = Xor(b[4], b[2])]
        d  == [c  EXCEPT ![1] = Xor(c[1], c[4])]
        e  == [d  EXCEPT ![3] = Xor(d[3], t)]
    IN  [e EXCEPT ![4] = rotl(e[4], 45)]

\* operator()() working on a copy of m_state: the member keeps its value
xoshiro256starstar_advance_copy(s) == s

\* the state xoshiro256starstar::operator()() leaves, assignment by assignment
xoshiro256starstar_advance(s) ==
    LET t  == Shl(s[2], 17)
        a  == [s  EXCEPT ![3] = Xor(s[3], s[1])]
        b  == [a  EXCEPT ![4] = Xor(a[4], a[2])]
        c  == [b  EXCEPT ![2] = Xor(b[2], b[3])]
        d  == [c  EXCEPT ![1] = Xor(c[1], c[4])]
        e  == [d  EXCEPT ![3] = Xor(d[3], t)]
    IN  [e EXCEPT ![4] = rotl(e[4], 45)]

\* xoshiro256starstar::operator()()
xoshiro256starstar_call(s) ==
    [m_state |-> xoshiro256starstar_advance(s), result |-> xoshiro256starstar_result(s)]

(***************************************************************************)
(* double                                                                  *)
(*                                                                         *)
(* A finite double is [neg, m, e], the number (-1)^neg * m * 2^e with m a  *)
(* bit sequence of at most 53 significant bits, kept odd (or empty, for    *)
(* zero) so that equal numbers of equal sign are equal records.  Results   *)
(* are computed exactly and rounded to nearest, ties to even, as IEEE-754  *)
(* binary64 does; the exponent range is not modelled: every value of the   *)
(* model is far from overflow and from the subnormal range.                *)
(***************************************************************************)

\* the value of a word of fewer than 24 significant bits
SmallValue(x) == Limb(x, 1) + 256 * Limb(x, 2) + 65536 * Limb(x, 3)

\* number of zero bits below the lowest set bit of a nonzero x
TrailingZeros(x) ==
    (CHOOSE i \in 1..Len(x) : x[i] = 1 /\ \A j \in 1..(i - 1) : x[j] = 0) - 1

\* the record of (-1)^neg * m * 2^e with m made odd
Canon(neg, m, e) ==
    IF IsZero(m) THEN [neg |-> neg, m |-> << >>, e |-> 0]
    ELSE LET tz == TrailingZeros(m)
         IN  [neg |-> neg, m |-> SubSeq(m, tz + 1, BitLength(m)), e |-> e + tz]

\* (-1)^neg * m * 2^e rounded to 53 significant bits, to nearest, ties to even
Round53(neg, m, e) ==
    LET len == BitLength(m)
    IN  IF len <= 53 THEN Canon(neg, m, e)
        ELSE LET s      == len - 53
                 q      == SubSeq(m, s + 1, len)
                 half   == m[s] = 1
                 sticky == \E j \in 1..(s - 1) : m[j] = 1
                 up     == half /\ (sticky \/ q[1] = 1)
             IN  Canon(neg, IF up THEN Add(q, FromNat(1, 54), 54) ELSE q, e + s)

\* the double an int converts to
DoubleOfInt(n) == Canon(n < 0, FromNat(IF n < 0 THEN 0 - n ELSE n, 31), 0)

\* the double whose binary64 representation is the 64-bit word x: sign bit
\* 63, biased exponent in bits 62..52, fraction in bits 51..0 (exponent
\* field 0 is zero or subnormal; 0x7ff, infinity and NaN, is never built)
DoubleOfBits(x) ==
    LET expField == SmallValue(SubSeq(x, 53, 63))
        frac     == SubSeq(x, 1, 52)
    IN  IF expField = 0 THEN Canon(x[64] = 1, frac, 0 - 1074)
        ELSE Canon(x[64] = 1, frac \o << 1 >>, expField - 1075)

\* the magnitude of a as an integer multiple of 2^e0, for e0 <= a.e
Scaled(a, e0) == Shl(Cast(a.m, Len(a.m) + (a.e - e0)), a.e - e0)

\* |a| < |b|
MagLess(a, b) ==
    LET e0 == IF a.e < b.e THEN a.e ELSE b.e
    IN  Less(Scaled(a, e0), Scaled(b, e0))

\* a < b
DLess(a, b) ==
    IF a.neg = b.neg THEN (IF a.neg THEN MagLess(b, a) ELSE MagLess(a, b))
    ELSE a.neg /\ ~(IsZero(a.m) /\ IsZero(b.m))

\* a <= b
DLeq(a, b) == ~DLess(b, a)

\* a - b
DSub(a, b) ==
    LET e0 == IF a.e < b.e THEN a.e ELSE b.e
        ma == Scaled(a, e0)
        mb == Scaled(b, e0)
        w  == (IF Len(ma) > Len(mb) THEN Len(ma) ELSE Len(mb)) + 1
    IN  IF a.neg # b.neg THEN Round53(a.neg, Add(ma, mb, w), e0)
        ELSE IF Less(ma, mb) THEN Round53(~a.neg, Sub(mb, ma, w), e0)
        ELSE IF Less(mb, ma) THEN Round53(a.neg, Sub(ma, mb, w), e0)
        ELSE Canon(FALSE, << >>, 0)

\* a * b
DMul(a, b) ==
    Round53(a.neg # b.neg, Mul(a.m, b.m, Len(a.m) + Len(b.m)), a.e + b.e)

(***************************************************************************)
(* Extras: the conversions of one raw word r = next()                      *)
(***************************************************************************)

\* the bit pattern with the raw word shifted by 11, one bit short
real01_bits_shift11(r) == BitOr(Shl(FromNat(1023, W), 52), Shr(r, 11))

\* the bit pattern real01 stores in x.i: (UINT64_C(0x3ff) << 52) | (r >> 12)
real01_bits(r) == BitOr(Shl(FromNat(1023, W), 52), Shr(r, 12))

\* real01(): x.d - 1.0, x.d being the double that shares its storage with
\* x.i (the union read every supported compiler defines as reinterpretation)
real01(r) == DSub(DoubleOfBits(real01_bits(r)), DoubleOfInt(1))

\* real_between(min_val, max_val): (max_val - min_val) * real01()
real_between(min_val, max_val, r) == DMul(DSub(max_val, min_val), real01(r))

\* bounded() shifting the product by one bit less than the word width
bounded_short_shift(boundExcluded, r) ==
    LET w == Len(r)
    IN  Cast(Shr(Mul(Cast(boundExcluded, 2 * w), Cast(r, 2 * w), 2 * w), w - 1), w)

\* bounded() multiplying in the word width and widening the product after
bounded_narrow(boundExcluded, r) ==
    LET w == Len(r)
    IN  Cast(Shr(Cast(Mul(boundExcluded, r, w), 2 * w), w), w)

\* bounded(boundExcluded) where __SIZEOF_INT128__ is defined: the high word
\* of the double-width product.  Written for words of any width w = Len(r)
\* with a double-width type of 2w bits; uint64_t and u128 are w = 64.  (The
\* #else branch names an undeclared variable, bound, and does not compile.)
bounded(boundExcluded, r) ==
    LET w == Len(r)
    IN  Cast(Shr(Mul(Cast(boundExcluded, 2 * w), Cast(r, 2 * w), 2 * w), w), w)

(***************************************************************************)
(* Bounds of the model                                                     *)
(***************************************************************************)

\* explicit seeds 0..MaxSeed besides those of SeedValues
MaxSeed == 0

\* calls made on one generator
MaxCalls == 2

\* bounded() is called with 0..MaxBound besides the other BoundValues
MaxBound == 2

\* real_between() is called with min_val and max_val among -1, 0 and MaxReal
MaxReal == 2

\* draws of the long run
LongDraws == 10000

\* width of the words whose whole range is tallied
TallyWidth == 8

\* bounds 1..MaxTallyBound are tallied
MaxTallyBound == 33

(***************************************************************************)
(* State                                                                   *)
(***************************************************************************)

VARIABLES
    gen,    \* the generator objects: gen[i].m_state is the member m_state
    out,    \* per generator, the last call made on it and what it returned
    tally   \* the raw words counted per value of bounded(), see C8_Tally

vars == << gen, out, tally >>

Inst == {"A", "B"}

Kinds == {"splitmix64", "xoshiro256starstar"}

\* the seed of the demonstration driver, xoshiro256starstar rng(123)
DriverSeed == 123

\* the bound of the demonstration driver, rng.bounded(32)
DriverBound == 32

\* the largest uint64_t, Extras::max()
MaxWord == Bits([i \in 1..W |-> 1])

\* the seed whose first splitmix64 accumulator is 0: 0 - Gamma
ZeroingSeed == Sub(FromNat(0, W), Gamma, W)

\* the explicit seeds of the model
SeedValues ==
    {FromNat(n, W) : n \in 0..MaxSeed} \cup {FromNat(DriverSeed, W), ZeroingSeed}

\* the values detail::rand64() returns in the model; std::random_device may
\* return any word
EntropyValues == {ZeroingSeed, MaxWord}

\* the arguments of bounded()
BoundValues ==
    {FromNat(n, W) : n \in 0..MaxBound} \cup {FromNat(DriverBound, W), MaxWord}

\* the arguments of real_between()
RealValues == {DoubleOfInt(n) : n \in {0 - 1, 0, MaxReal}}

\* a generator not constructed yet.  Beside the members, a generator records
\* how it was constructed (kind, seed, explicit), the number of calls made on
\* it (draws) and the m_state its constructor left (initial)
NoGen ==
    [kind |-> "none", m_state |-> << >>, seed |-> << >>, explicit |-> FALSE,
     draws |-> 0, initial |-> << >>]

\* no call made yet
NoOut ==
    [op |-> "none", bound |-> << >>, min_val |-> DoubleOfInt(0),
     max_val |-> DoubleOfInt(0), raw |-> << >>, ret |-> << >>,
     retd |-> DoubleOfInt(0)]

\* m_state as a static member: one for all the objects of a class
Store_static(g, i, m_state) ==
    [j \in DOMAIN g |->
        IF j = i \/ (g[j].kind = g[i].kind /\ g[j].kind # "none")
        THEN [g[j] EXCEPT !.m_state = m_state]
        ELSE g[j]]

\* the member m_state of generator i is assigned: a non-static data member,
\* one per object
Store(g, i, m_state) == [g EXCEPT ![i].m_state = m_state]

\* splitmix64(uint64_t seed): m_state(seed)
splitmix64_seed(seed) == << seed >>

\* the m_state the constructor of an engine of the kind leaves
Constructed(kind, seed) ==
    IF kind = "splitmix64" THEN splitmix64_seed(seed)
    ELSE xoshiro256starstar_seed(seed)

\* Extras::next(): (*static_cast<Engine*>(this))(), the engine's operator()
next(g) ==
    IF g.kind = "splitmix64"
    THEN splitmix64_call(g.m_state[1])
    ELSE xoshiro256starstar_call(g.m_state)

Init ==
    /\ gen = [i \in Inst |-> NoGen]
    /\ out = [i \in Inst |-> NoOut]
    /\ tally = [bound |-> 0, r |-> 0, count |-> << >>]

\* the object i is constructed: arg is the seed the constructor was given
\* (explicit) or drew (not explicit), used the seed it seeds m_state with
Build(i, kind, arg, explicit, used) ==
    /\ gen[i].kind = "none"
    /\ gen' = Store([gen EXCEPT ![i] =
                        [kind |-> kind, m_state |-> << >>, seed |-> arg,
                         explicit |-> explicit, draws |-> 0,
                         initial |-> Constructed(kind, used)]],
                    i, Constructed(kind, used))
    /\ UNCHANGED << out, tally >>

\* the seeded constructor delegating to the default one: the seed is not used
Construct_unseeded(i, kind, seed) ==
    \E e \in EntropyValues : Build(i, kind, seed, TRUE, e)

\* splitmix64(seed), xoshiro256starstar(seed)
Construct(i, kind, seed) == Build(i, kind, seed, TRUE, seed)

\* splitmix64(), xoshiro256starstar(): the seed is detail::rand64()
ConstructDefault(i, kind) ==
    \E seed \in EntropyValues : Build(i, kind, seed, FALSE, seed)

\* one call on generator i: c is what its one call of next() gives, o the
\* record of the call
Draw(i, limit, c, o) ==
    /\ gen[i].kind # "none"
    /\ gen[i].draws < limit
    /\ gen' = [Store(gen, i, c.m_state) EXCEPT ![i].draws = @ + 1]
    /\ out' = [out EXCEPT ![i] = o]
    /\ UNCHANGED tally

\* the engine's operator()()
CallNext(i, limit) ==
    LET c == next(gen[i])
        r == c.result
    IN  Draw(i, limit, c, [NoOut EXCEPT !.op = "next", !.raw = r, !.ret = r])

\* real01()
CallReal01(i, limit) ==
    LET c == next(gen[i])
        r == c.result
    IN  Draw(i, limit, c,
             [NoOut EXCEPT !.op = "real01", !.raw = r, !.retd = real01(r)])

\* real_between(min_val, max_val)
CallRealBetween(i, limit, min_val, max_val) ==
    LET c == next(gen[i])
        r == c.result
    IN  Draw(i, limit, c,
             [NoOut EXCEPT !.op = "real_between", !.raw = r,
                           !.min_val = min_val, !.max_val = max_val,
                           !.retd = real_between(min_val, max_val, r)])

\* bounded(boundExcluded)
CallBounded(i, limit, boundExcluded) ==
    LET c == next(gen[i])
        r == c.result
    IN  Draw(i, limit, c,
             [NoOut EXCEPT !.op = "bounded", !.raw = r,
                           !.bound = boundExcluded,
                           !.ret = bounded(boundExcluded, r)])

\* one generator, every operation with every argument of the model
Next ==
    \/ \E kind \in Kinds, seed \in SeedValues : Construct("A", kind, seed)
    \/ \E kind \in Kinds : ConstructDefault("A", kind)
    \/ CallNext("A", MaxCalls)
    \/ CallReal01("A", MaxCalls)
    \/ \E a, b \in RealValues : CallRealBetween("A", MaxCalls, a, b)
    \/ \E n \in BoundValues : CallBounded("A", MaxCalls, n)

Spec == Init /\ [][Next]_vars

\* the explicit seed of the two-generator runs; the default constructors
\* give the other seeds
PairSeeds == {FromNat(DriverSeed, W)}

\* two generators, each operation with one argument list
NextPair ==
    \E i \in Inst :
        \/ \E kind \in Kinds, seed \in PairSeeds : Construct(i, kind, seed)
        \/ \E kind \in Kinds : ConstructDefault(i, kind)
        \/ CallNext(i, MaxCalls)
        \/ CallReal01(i, MaxCalls)
        \/ CallRealBetween(i, MaxCalls, DoubleOfInt(0 - 1), DoubleOfInt(MaxReal))
        \/ CallBounded(i, MaxCalls, FromNat(DriverBound, W))

SpecPair == Init /\ [][NextPair]_vars

\* one xoshiro256starstar, constructed from a seed and drawn from LongDraws times
NextLong ==
    \/ \E seed \in SeedValues : Construct("A", "xoshiro256starstar", seed)
    \/ CallNext("A", LongDraws)

SpecLong == Init /\ [][NextLong]_vars

(***************************************************************************)
(* The whole range of raw words, for bounded()                             *)
(***************************************************************************)

\* every bound of 1..MaxTallyBound starts a tally over the words of
\* TallyWidth bits
InitTally ==
    /\ gen = [i \in Inst |-> NoGen]
    /\ out = [i \in Inst |-> NoOut]
    /\ tally \in {[bound |-> n, r |-> 0,
                   count |-> [v \in 1..Pow2(TallyWidth) |-> 0]] :
                  n \in 1..MaxTallyBound}

\* the next raw word r is given to bounded(tally.bound) and counted under
\* the value v returned, at count[v + 1]
C8_Tally ==
    /\ tally.bound > 0
    /\ tally.r < Pow2(TallyWidth)
    /\ LET v == SmallValue(bounded(FromNat(tally.bound, TallyWidth),
                                   FromNat(tally.r, TallyWidth)))
       IN  tally' = [tally EXCEPT !.r = @ + 1, !.count[v + 1] = @ + 1]
    /\ UNCHANGED << gen, out >>

SpecTally == InitTally /\ [][C8_Tally]_vars

(***************************************************************************)
(* Claims                                                                  *)
(***************************************************************************)

\* the calls recorded in o1 and o2 are the same operation with the same arguments
SameCall(o1, o2) ==
    /\ o1.op = o2.op
    /\ o1.bound = o2.bound
    /\ o1.min_val = o2.min_val
    /\ o1.max_val = o2.max_val

\* C1 (determinism): two generators of the same kind constructed with the
\* same explicit seed, after the same number of calls of which the last is
\* the same call, hold the same m_state and returned the same value.  Every
\* pair of runs is reachable here, so for two runs given the same sequence of
\* calls this holds after each of the calls: the value sequences are equal.
C1_Determinism ==
    \A i, j \in Inst :
        ( /\ gen[i].kind # "none"
          /\ gen[i].kind = gen[j].kind
          /\ gen[i].explicit /\ gen[j].explicit
          /\ gen[i].seed = gen[j].seed
          /\ gen[i].draws = gen[j].draws
          /\ SameCall(out[i], out[j]) )
        => /\ gen[i].m_state = gen[j].m_state
           /\ out[i].raw = out[j].raw
           /\ out[i].ret = out[j].ret
           /\ out[i].retd = out[j].retd

\* two xoshiro256starstar of the same explicit seed, each after MaxCalls
\* calls ending in the same bounded() call
C1_Witness ==
    /\ gen["A"].kind = "xoshiro256starstar" /\ gen["B"].kind = "xoshiro256starstar"
    /\ gen["A"].explicit /\ gen["B"].explicit
    /\ gen["A"].seed = gen["B"].seed
    /\ gen["A"].draws = MaxCalls /\ gen["B"].draws = MaxCalls
    /\ out["A"].op = "bounded" /\ out["B"].op = "bounded"

\* C2 (bounded range): bounded(N) with N > 0 returns v < N, and v is
\* floor(N * r / 2^64) for the raw word r drawn: v * 2^64 <= N * r and
\* N * r - v * 2^64 < 2^64, N * r being the exact 128-bit product.
C2_BoundedRange ==
    \A i \in Inst :
        (out[i].op = "bounded" /\ ~IsZero(out[i].bound)) =>
            LET N  == out[i].bound
                v  == out[i].ret
                p  == Mul(Cast(N, 2 * W), Cast(out[i].raw, 2 * W), 2 * W)
                lo == Shl(Cast(v, 2 * W), W)
            IN  /\ Len(v) = W
                /\ Less(v, N)
                /\ ~Less(p, lo)
                /\ Less(Sub(p, lo, 2 * W), Shl(FromNat(1, 2 * W), W))

\* bounded(2^64 - 1) on a raw word of the upper half of the range
C2_Witness ==
    \E i \in Inst :
        /\ out[i].op = "bounded"
        /\ out[i].bound = MaxWord
        /\ out[i].raw[W] = 1

\* C3 (real_between range): real_between(min, max) with min < max returns x
\* with min <= x < max.
C3_RealBetweenRange ==
    \A i \in Inst :
        (out[i].op = "real_between" /\ DLess(out[i].min_val, out[i].max_val)) =>
            /\ DLeq(out[i].min_val, out[i].retd)
            /\ DLess(out[i].retd, out[i].max_val)

\* C4 (real01 range): real01() returns exactly k / 2^52 for k = r >> 12, r
\* the raw word drawn; k < 2^52, and the value is in [0, 1) and is not 1.0.
C4_Real01 ==
    \A i \in Inst :
        out[i].op = "real01" =>
            LET k == Shr(out[i].raw, 12)
                x == out[i].retd
            IN  /\ x = Canon(FALSE, k, 0 - 52)
                /\ BitLength(k) <= 52
                /\ DLeq(DoubleOfInt(0), x)
                /\ DLess(x, DoubleOfInt(1))
                /\ x # DoubleOfInt(1)

\* real01() on a raw word of the upper half of the range: a value >= 0.5
C4_Witness ==
    \E i \in Inst :
        /\ out[i].op = "real01"
        /\ out[i].raw[W] = 1
        /\ DLeq(Canon(FALSE, FromNat(1, W), 0 - 1), out[i].retd)

\* mix(z) of the splitmix64 reference
RefMix(z) ==
    LET a == Mul(Xor(z, Shr(z, 30)), MixMul1, W)
        b == Mul(Xor(a, Shr(a, 27)), MixMul2, W)
    IN  Xor(b, Shr(b, 31))

\* the splitmix64 accumulator for seed S after k calls: S + k * Gamma mod 2^64
RefAccumulator(S, k) == Add(S, Mul(FromNat(k, W), Gamma, W), W)

\* the state of the xoshiro256** reference for seed S: the first four
\* outputs of splitmix64(S)
RefSeed(S) == [k \in 1..4 |-> RefMix(RefAccumulator(S, k))]

\* one step of the reference, each new word written from the old ones
RefStep(s) ==
    << Xor(Xor(s[1], s[4]), s[2]),
       Xor(Xor(s[2], s[3]), s[1]),
       Xor(Xor(s[3], s[1]), Shl(s[2], 17)),
       rotl(Xor(s[4], s[2]), 45) >>

\* the word the reference returns in state s: rotl(s1 * 5, 7) * 9, the
\* products as shifted sums
RefOutput(s) ==
    LET x5 == Add(Shl(s[2], 2), s[2], W)
        y  == rotl(x5, 7)
    IN  Add(Shl(y, 3), y, W)

\* the state of the reference for seed S after n steps
RECURSIVE RefState(_, _)
RefState(S, n) == IF n = 0 THEN RefSeed(S) ELSE RefStep(RefState(S, n - 1))

\* C5 (long-period correctness): a xoshiro256starstar of seed S that has
\* made n calls is in the state of the reference after n steps, and the
\* word its last call drew is the reference's n-th output.
C5_XoshiroReference ==
    \A i \in Inst :
        gen[i].kind = "xoshiro256starstar" =>
            /\ gen[i].m_state = RefState(gen[i].seed, gen[i].draws)
            /\ gen[i].draws > 0 =>
                   out[i].raw = RefOutput(RefState(gen[i].seed, gen[i].draws - 1))

\* a xoshiro256starstar of the driver's seed after MaxCalls calls
C5_Witness ==
    \E i \in Inst :
        /\ gen[i].kind = "xoshiro256starstar"
        /\ gen[i].explicit
        /\ gen[i].seed = FromNat(DriverSeed, W)
        /\ gen[i].draws = MaxCalls

\* the first output of splitmix64 for seed 0 in the published reference,
\* 0xE220A8397B1DCDAF
RefFirstOutput == Hex64(<< 14, 2, 2, 0, 10, 8, 3, 9, 7, 11, 1, 13, 12, 13, 10, 15 >>)

\* C6 (scrambler correctness): a splitmix64 of seed S after k calls holds
\* the accumulator S + k * Gamma mod 2^64, the k-th call returned mix of
\* that accumulator, and the first output for seed 0 is mix(Gamma).
C6_Splitmix ==
    \A i \in Inst :
        gen[i].kind = "splitmix64" =>
            LET acc == RefAccumulator(gen[i].seed, gen[i].draws)
            IN  /\ gen[i].m_state = << acc >>
                /\ gen[i].draws >= 1 => out[i].raw = RefMix(acc)
                /\ (gen[i].draws = 1 /\ IsZero(gen[i].seed)) =>
                       /\ out[i].raw = RefMix(Gamma)
                       /\ out[i].raw = RefFirstOutput

\* a splitmix64 of seed 0 whose accumulator has wrapped around 2^64 by its
\* second call
C6_Witness ==
    \E i \in Inst :
        /\ gen[i].kind = "splitmix64"
        /\ gen[i].explicit
        /\ IsZero(gen[i].seed)
        /\ gen[i].draws = 2
        /\ Less(gen[i].m_state[1], Gamma)

\* C7 (zero-state invariant): the m_state of a xoshiro256starstar is never
\* the all-zero tuple.
C7_NonZeroState ==
    \A i \in Inst :
        gen[i].kind = "xoshiro256starstar" =>
            \E k \in 1..4 : ~IsZero(gen[i].m_state[k])

\* a xoshiro256starstar whose constructor left m_state[0] = 0, after a call
C7_Witness ==
    \E i \in Inst :
        /\ gen[i].kind = "xoshiro256starstar"
        /\ gen[i].explicit
        /\ IsZero(gen[i].initial[1])
        /\ gen[i].draws >= 1

\* C8 (bounded unbiasedness): over all the raw words of the word range,
\* bounded(N) returns each value below N for floor(2^w / N) or ceil(2^w / N)
\* of them, for exactly 2^w / N when N divides 2^w, and no other value.
C8_Unbiased ==
    (tally.bound > 0 /\ tally.r = Pow2(TallyWidth)) =>
        LET N     == tally.bound
            words == Pow2(TallyWidth)
        IN  \A v \in 0..(words - 1) :
                IF v < N
                THEN /\ tally.count[v + 1] >= words \div N
                     /\ tally.count[v + 1] <= (words + N - 1) \div N
                     /\ (words % N = 0) => tally.count[v + 1] = words \div N
                ELSE tally.count[v + 1] = 0

\* a finished tally whose values are not all returned equally often
C8_Witness ==
    /\ tally.bound > 0
    /\ tally.r = Pow2(TallyWidth)
    /\ \E u, v \in 1..tally.bound : tally.count[u] # tally.count[v]

\* C9 (non-repetition): a xoshiro256starstar built from an explicit seed is
\* not in the state its constructor left after n calls, 1 <= n <= LongDraws.
C9_NoReturn ==
    \A i \in Inst :
        ( /\ gen[i].kind = "xoshiro256starstar"
          /\ gen[i].explicit
          /\ gen[i].draws >= 1 )
        => gen[i].m_state # gen[i].initial

\* the generator of the driver's seed after LongDraws calls
C9_Witness ==
    /\ gen["A"].kind = "xoshiro256starstar"
    /\ gen["A"].seed = FromNat(DriverSeed, W)
    /\ gen["A"].draws = LongDraws

\* C10 (state never aliases): a step, the construction of a generator or a
\* call on it, changes one generator and leaves the other as it was.
C10_Frame ==
    [][\E i \in Inst : \A j \in Inst \ {i} : gen'[j] = gen[j] /\ out'[j] = out[j]]_vars

\* two xoshiro256starstar of the same seed: A has made MaxCalls calls, B none
\* and holds the state its constructor left
C10_Witness ==
    /\ gen["A"].kind = "xoshiro256starstar" /\ gen["B"].kind = "xoshiro256starstar"
    /\ gen["A"].seed = gen["B"].seed
    /\ gen["A"].draws = MaxCalls
    /\ gen["B"].draws = 0
    /\ gen["B"].m_state = gen["B"].initial
    /\ gen["A"].m_state # gen["B"].m_state

====
